---- MODULE Spec2Model ----
(***************************************************************************)
(* Model of clamor.gateway.connector.DiscordWebsocketClient: the session   *)
(* engine of the gateway client (connection lifecycle, receive loop,       *)
(* heartbeat loop, resume, close).                                          *)
(*                                                                          *)
(* Concurrency model.  The client runs on anyio: tasks are cooperative and  *)
(* a step of the model is the code a task runs between two suspension       *)
(* points (open_connection, get_message, send, sleep, task-group exit).     *)
(* Cancelling a task group's cancel scope marks the scope cancelled; every  *)
(* task inside the scope, the caller included, receives the cancellation    *)
(* at the suspension point it is in or reaches next, and runs no further    *)
(* code of its own after it.                                                *)
(***************************************************************************)
EXTENDS Integers, Sequences, FiniteSets, TLC

\* ---------------------------------------------------------------- bounds
MaxConn == 2      \* transport connections opened during one run
MaxHb   == 2      \* heartbeat tasks spawned into one task group
MaxSeq  == 2      \* largest sequence number the gateway puts in a message
MaxFrames == 3    \* frames the gateway delivers during one run
MaxCalls  == 2    \* close() and resume() calls the application makes during one run

None == "None"
Conns == 1..MaxConn
HbSlots == 1..MaxHb

\* ------------------------------------------------------- wire constants
opcodes == [DISPATCH |-> 0, HEARTBEAT |-> 1, IDENTIFY |-> 2, RESUME |-> 6,
            HELLO |-> 10, HEARTBEAT_ACK |-> 11]
ZLIB_SUFFIX == <<0, 0, 255, 255>>
ZlibHeader == <<120>>     \* 0x78, first byte of a zlib stream
TextStart  == <<123>>     \* '{', first character of a JSON document
Tokens     == {"tok"}

\* The documents the gateway may send, as decoded messages.  An optional
\* integer (the s key of the envelope, self._last_sequence) is the set of
\* its values: NoField, the empty set, is an absent key or None.
NoField == {}
DocTable ==
  <<[op |-> opcodes.HELLO, t |-> NoField, s |-> NoField, d |-> 45000],
    [op |-> opcodes.HEARTBEAT_ACK, t |-> NoField, s |-> NoField, d |-> None],
    [op |-> 7, t |-> NoField, s |-> NoField, d |-> None],
    [op |-> opcodes.DISPATCH, t |-> "READY", s |-> {1}, d |-> 1]>>
  \o [i \in 1..(MaxSeq + 1) |->
        [op |-> opcodes.DISPATCH, t |-> "MESSAGE_CREATE", s |-> {i - 1}, d |-> None]]
\* one more code than documents: a text that is not a document of the codec
DocCodes == 1..(Len(DocTable) + 1)
DispatchCodes == {k \in 1..Len(DocTable) : DocTable[k].op = opcodes.DISPATCH}
ControlCodes == DocCodes \ DispatchCodes
HelloCodes == {k \in 1..Len(DocTable) : DocTable[k].op = opcodes.HELLO}

VARIABLES
  running,          \* self._running
  con,              \* self._con   (0 = None)
  tg,               \* self._tg    (0 = None)
  interval,         \* self._interval
  last_sequence,    \* self._last_sequence
  has_ack,          \* self._has_ack
  session_id,       \* self._session_id
  token,            \* self._token
  zlib_compressed,  \* self.zlib_compressed
  shard,            \* [id |-> self.shard_id, count |-> self.shard_count]
  buffer,           \* self.buffer
  inflator,         \* self.inflator: "fresh" | "mid" | "error"
  conns,            \* transport: connection -> "unused" | "open" | "closed"
  srv,              \* gateway side of each connection: bytes of the chunk in flight
  tgs,              \* task groups: id -> "none" | "open" | "cancelled" | "closed"
  task,             \* every task: id -> [pc, con, err, out]
  hist,             \* history of the run (observation only, never read by the program)
  used              \* what the environment has done so far: [frames, calls]

vars == <<running, con, tg, interval, last_sequence, has_ack, session_id, token,
          zlib_compressed, shard, buffer, inflator, conns, srv, tgs, task, hist, used>>

\* ------------------------------------------------------------- tasks
MainT == <<"main", 0, 0>>          \* application task calling start()
ResT  == <<"res", 0, 0>>           \* application task calling resume()
RecvT(c)  == <<"recv", c, 0>>      \* _receive_task spawned into task group c
IdentT(c) == <<"ident", c, 0>>     \* _identify spawned into task group c
HbT(c, i) == <<"hb", c, i>>        \* i-th _heartbeat_task spawned into task group c
HbIds == {HbT(c, i) : c \in Conns, i \in HbSlots}
TaskIds == {MainT, ResT} \cup {RecvT(c) : c \in Conns}
             \cup {IdentT(c) : c \in Conns} \cup HbIds
Scope(t) == t[2]                   \* the task group (cancel scope) a task runs in
Terminal == {"none", "idle", "done", "cancelled", "raised"}
NoTask == [pc |-> "none", con |-> 0, err |-> "", out |-> <<>>]
At(pc, c, e) == [pc |-> pc, con |-> c, err |-> e, out |-> <<>>]

\* ------------------------------------------------------ frames and codec
\* Wire bytes.  The deflate output of a document is abstracted to one code
\* byte; the framing bytes (zlib header, sync-flush terminator, first
\* character of the text) are kept.
Text(k)    == TextStart \o <<k>>               \* the document as JSON text
OneShot(k) == ZlibHeader \o <<k>>              \* zlib.compress(text)
Chunk(k, first) ==                             \* one sync-flushed unit of a zlib stream
  (IF first THEN ZlibHeader ELSE <<>>) \o <<k>> \o ZLIB_SUFFIX

endswith(b, suffix) ==
  /\ Len(b) >= Len(suffix)
  /\ SubSeq(b, Len(b) - Len(suffix) + 1, Len(b)) = suffix

\* self.inflator.decompress(self.buffer): the decompressor keeps its stream
\* position between calls; a fresh one expects the zlib header, one in
\* mid-stream expects a continuation unit.  Anything else is a zlib.error.
InflateStream(state, b) ==
  IF state = "fresh" /\ Len(b) = 6 /\ SubSeq(b, 1, 1) = ZlibHeader
       /\ b[2] \in DocCodes /\ SubSeq(b, 3, 6) = ZLIB_SUFFIX
    THEN [ok |-> TRUE, text |-> Text(b[2]), state |-> "mid"]
  ELSE IF state = "mid" /\ Len(b) = 5 /\ b[1] \in DocCodes
       /\ SubSeq(b, 2, 5) = ZLIB_SUFFIX
    THEN [ok |-> TRUE, text |-> Text(b[1]), state |-> "mid"]
  ELSE [ok |-> FALSE, text |-> <<>>, state |-> "error"]

\* zlib.decompress(message, 15, TEN_MEGABYTES).decode('utf-8')
InflateOneShot(b) ==
  IF Len(b) = 2 /\ SubSeq(b, 1, 1) = ZlibHeader /\ b[2] \in DocCodes
    THEN [ok |-> TRUE, text |-> Text(b[2])]
    ELSE [ok |-> FALSE, text |-> <<>>]

\* self.encoder.decode(message) of the JSON codec
EncoderDecode(m) ==
  IF Len(m) = 2 /\ SubSeq(m, 1, 1) = TextStart /\ m[2] \in 1..Len(DocTable)
    THEN [ok |-> TRUE, msg |-> DocTable[m[2]]]
    ELSE [ok |-> FALSE, msg |-> None]

\* message.get('s'): truthiness of the sequence field
Truthy(s) == s # NoField /\ s # {0}

\* _receive on one raw frame, from the point where get_message returned.
\* Result: the new buffer and inflator, the outcome ("msg" or the exception
\* raised), the decoded message, whether the reassembly buffer ended with the
\* terminator, what was handed to the codec (<<>> if nothing) and the new
\* last_sequence.
ReceiveZlib(frame, buf, infl, seq) ==
  LET nb == buf \o frame
      complete == endswith(nb, ZLIB_SUFFIX)
      z == InflateStream(infl, nb)
  IN IF complete /\ ~z.ok
       THEN [buffer |-> nb, inflator |-> z.state, out |-> "zlib.error", msg |-> None,
             complete |-> TRUE, codec |-> <<>>, seq |-> seq]
     ELSE
       LET m == IF complete THEN z.text ELSE frame
           dec == EncoderDecode(m)
           b2 == IF complete THEN <<>> ELSE nb
           i2 == IF complete THEN z.state ELSE infl
       IN IF ~dec.ok
            THEN [buffer |-> b2, inflator |-> i2, out |-> "EncodingError", msg |-> None,
                  complete |-> complete, codec |-> m, seq |-> seq]
            ELSE [buffer |-> b2, inflator |-> i2, out |-> "msg", msg |-> dec.msg,
                  complete |-> complete, codec |-> m,
                  seq |-> IF Truthy(dec.msg.s) THEN dec.msg.s ELSE seq]

ReceivePlain(frame, buf, infl, seq) ==
  LET z == InflateOneShot(frame)
      packed == SubSeq(frame, 1, 1) # TextStart
  IN IF packed /\ ~z.ok
       THEN [buffer |-> buf, inflator |-> infl, out |-> "zlib.error", msg |-> None,
             complete |-> TRUE, codec |-> <<>>, seq |-> seq]
     ELSE
       LET m == IF packed THEN z.text ELSE frame
           dec == EncoderDecode(m)
       IN IF ~dec.ok
            THEN [buffer |-> buf, inflator |-> infl, out |-> "EncodingError", msg |-> None,
                  complete |-> TRUE, codec |-> m, seq |-> seq]
            ELSE [buffer |-> buf, inflator |-> infl, out |-> "msg", msg |-> dec.msg,
                  complete |-> TRUE, codec |-> m,
                  seq |-> IF Truthy(dec.msg.s) THEN dec.msg.s ELSE seq]

Receive(frame, compressed, buf, infl, seq) ==
  IF compressed THEN ReceiveZlib(frame, buf, infl, seq)
                ELSE ReceivePlain(frame, buf, infl, seq)

\* ------------------------------------------------------------ helpers
Opened == {c \in Conns : conns[c] # "unused"}
CanOpen == Cardinality(Opened) < MaxConn
FreshConn == Cardinality(Opened) + 1
Children(g) == {t \in TaskIds : Scope(t) = g}
FreeSlots(g) == {i \in HbSlots : task[HbT(g, i)].pc = "none"}
Alive(t) == IF Scope(t) = 0 THEN TRUE ELSE tgs[Scope(t)] = "open"

\* self._tg.cancel_scope.cancel(): the scope of group g is cancelled, and
\* with it the scope of every group a task of g is the host of
RECURSIVE Within(_, _)
Within(g, n) ==
  IF n = 0 THEN {g}
  ELSE {g} \cup UNION {Within(task[t].con, n - 1) :
                         t \in {u \in Children(g) : task[u].pc = "host"}}

\* a cancel() that cancels nothing
NoCancel(groups, g) == groups

CancelScope(groups, g) ==
  IF g = 0 THEN groups
  ELSE [k \in Conns |-> IF k \in Within(g, MaxConn) /\ groups[k] = "open"
                          THEN "cancelled" ELSE groups[k]]

\* What cancelling does to the tasks: a task inside a cancelled scope
\* receives the cancellation at the suspension point it is in and runs no
\* code of its own after that; one cancelled inside resume() still holds the
\* connection it has opened until the group ends.  The host of a group stays
\* until its tasks have ended.
Stop(tasks, groups) ==
  [t \in TaskIds |->
     IF Scope(t) = 0 THEN tasks[t]
     ELSE IF groups[Scope(t)] # "cancelled" THEN tasks[t]
     ELSE IF tasks[t].pc \in Terminal \cup {"aborted", "host"} THEN tasks[t]
     ELSE IF tasks[t].pc \in {"r_open", "r_send"} THEN At("aborted", tasks[t].con, "")
     ELSE At("cancelled", 0, "")]

\* the `while self._running` test of _receive_task and _heartbeat_task
LoopPc(r, waiting) == IF r THEN waiting ELSE "done"

\* self._send(opcode, data): the payload is handed to self._con.send on
\* connection c and the task is suspended until the send returns
Sending(c, op, d) == [pc |-> "send", con |-> 0, err |-> "", out |-> <<c, op, d>>]

\* the payloads of the three commands
HeartbeatData == last_sequence
IdentifyData ==
  [token |-> token,
   shard |-> IF Truthy(shard.id) /\ Truthy(shard.count)
               THEN {<<i, n>> : i \in shard.id, n \in shard.count} ELSE {}]
ResumeData == [token |-> token, session_id |-> session_id, seq |-> last_sequence]

\* __init__, with the shard_id and shard_count arguments drawn from ids and
\* counts (an argument that is not given is None)
Construct(ids, counts) ==
  /\ running = FALSE
  /\ con = 0
  /\ tg = 0
  /\ interval = 0
  /\ last_sequence = NoField
  /\ has_ack = TRUE
  /\ session_id = 0
  /\ token = ""
  /\ zlib_compressed \in BOOLEAN
  /\ shard \in [id : ids, count : counts]
  /\ buffer = <<>>
  /\ inflator = "fresh"
  /\ conns = [c \in Conns |-> "unused"]
  /\ srv = [c \in Conns |-> [first |-> TRUE, rest |-> <<>>]]
  /\ tgs = [c \in Conns |-> "none"]
  /\ task = [t \in TaskIds |-> IF t \in {MainT, ResT} THEN At("idle", 0, "") ELSE NoTask]
  /\ hist = [beat |-> "none", clean |-> TRUE, closed |-> FALSE, trig |-> ResumeData]
  /\ used = [frames |-> 0, calls |-> 0]

\* a client constructed without shard arguments
Init == Construct({NoField}, {NoField})

\* a client constructed with any of the shard arguments
ShardIds == {NoField, {0}, {1}}
ShardCounts == {NoField, {4}}
InitShard == Construct(ShardIds, ShardCounts)

\* on_resume, which no code calls: like on_open, but the group starts with a
\* heartbeat task and a receive task
OnResume(t, c) ==
  /\ tg' = c
  /\ tgs' = [tgs EXCEPT ![c] = "open"]
  /\ task' = [task EXCEPT ![t] = At("host", c, ""),
                          ![HbT(c, 1)] = At("spawned", 0, ""),
                          ![RecvT(c)] = At("spawned", 0, "")]

\* on_open, entered by task t holding connection c: a new task group is
\* stored in self._tg and _receive_task and _identify are spawned into it;
\* t then waits for the group to finish.
OnOpen(t, c) ==
  /\ tg' = c
  /\ tgs' = [tgs EXCEPT ![c] = "open"]
  /\ task' = [task EXCEPT ![t] = At("host", c, ""),
                          ![RecvT(c)] = At("spawned", 0, ""),
                          ![IdentT(c)] = At("spawned", 0, "")]

\* start(token), up to the suspension in anysocks.open_connection
Start(tok) ==
  /\ task[MainT].pc = "idle" /\ task[ResT].pc = "idle"
  /\ CanOpen
  /\ token' = tok
  /\ task' = [task EXCEPT ![MainT] = At("open", 0, "")]
  /\ hist' = [hist EXCEPT !.closed = FALSE]
  /\ UNCHANGED <<used, running, con, tg, interval, last_sequence, has_ack, session_id,
                 zlib_compressed, shard, buffer, inflator, conns, srv, tgs>>

\* connect(), once the connection is open, and on_open
ConnectOpened ==
  /\ task[MainT].pc = "open"
  /\ CanOpen
  /\ conns' = [conns EXCEPT ![FreshConn] = "open"]
  /\ con' = FreshConn
  /\ running' = TRUE
  /\ OnOpen(MainT, FreshConn)
  /\ hist' = [hist EXCEPT !.beat = "none"]
  /\ UNCHANGED <<used, interval, last_sequence, has_ack, session_id, token,
                 zlib_compressed, shard, buffer, inflator, srv>>

\* close(), called by the application (with self._tg still None the call
\* raises after clearing the flag)
Close ==
  /\ used.calls < MaxCalls
  /\ used' = [used EXCEPT !.calls = @ + 1]
  /\ running' = FALSE
  /\ tgs' = CancelScope(tgs, tg)
  /\ task' = Stop(task, CancelScope(tgs, tg))
  /\ hist' = [hist EXCEPT !.closed = (tg # 0), !.clean = FALSE]
  /\ UNCHANGED <<con, tg, interval, last_sequence, has_ack, session_id, token,
                 zlib_compressed, shard, buffer, inflator, conns, srv>>

\* resume(), called by task t, up to the suspension in open_connection: a
\* running client is closed first; a caller inside the scope it has just
\* cancelled is cancelled at that suspension.
ResumeCall(t) ==
  LET groups == IF running THEN CancelScope(tgs, tg) ELSE tgs
      gone == IF Scope(t) = 0 THEN FALSE ELSE groups[Scope(t)] # "open"
  IN /\ running' = FALSE
     /\ tgs' = groups
     /\ task' = Stop([task EXCEPT ![t] = At(IF gone THEN "aborted" ELSE "r_open", 0, "")],
                      groups)

\* resume(), called by the application
AppResume ==
  /\ task[ResT].pc = "idle" /\ task[MainT].pc # "open"
  /\ CanOpen
  /\ used.calls < MaxCalls
  /\ used' = [used EXCEPT !.calls = @ + 1]
  /\ ResumeCall(ResT)
  /\ hist' = [hist EXCEPT !.closed = FALSE, !.clean = FALSE, !.trig = ResumeData]
  /\ UNCHANGED <<con, tg, interval, last_sequence, has_ack, session_id, token,
                 zlib_compressed, shard, buffer, inflator, conns, srv>>

\* resume(), once the new connection is open: the RESUME payload is built
\* and handed to the transport
ResumeOpened(t) ==
  /\ task[t].pc = "r_open" /\ Alive(t)
  /\ CanOpen
  /\ conns' = [conns EXCEPT ![FreshConn] = "open"]
  /\ con' = FreshConn
  /\ running' = TRUE
  /\ task' = [task EXCEPT ![t] =
                [pc |-> "r_send", con |-> FreshConn, err |-> "",
                 out |-> <<FreshConn, opcodes.RESUME, ResumeData>>]]
  /\ hist' = [hist EXCEPT !.beat = "none"]
  /\ UNCHANGED <<used, tg, interval, last_sequence, has_ack, session_id, token,
                 zlib_compressed, shard, buffer, inflator, srv, tgs>>

\* resume(), once RESUME is sent: on_open
ResumeSent(t) ==
  /\ task[t].pc = "r_send" /\ Alive(t)
  /\ OnOpen(t, task[t].con)
  /\ UNCHANGED <<used, running, con, interval, last_sequence, has_ack, session_id, token,
                 zlib_compressed, shard, buffer, inflator, conns, srv, hist>>

\* What the gateway may deliver next on connection c, each frame with the
\* gateway's state after it.  With zlib-stream compression the documents
\* travel as the sync-flushed units of one zlib stream, which the transport
\* may cut into frames at any byte; otherwise each frame is one document, as
\* text or compressed on its own.
Units(c, codes) ==
  IF zlib_compressed THEN {Chunk(k, srv[c].first) : k \in codes}
  ELSE {Text(k) : k \in codes} \cup {OneShot(k) : k \in codes}

\* a whole document of one of the codes in one frame
Whole(c, codes) ==
  IF srv[c].rest # <<>> THEN {}
  ELSE {[frame |-> u, srv |-> [first |-> FALSE, rest |-> <<>>]] : u \in Units(c, codes)}

\* a frame that ends inside a unit, or the rest of a unit already begun
Fragments(c) ==
  IF srv[c].rest # <<>>
    THEN {[frame |-> SubSeq(srv[c].rest, 1, n),
           srv |-> [first |-> FALSE,
                    rest |-> SubSeq(srv[c].rest, n + 1, Len(srv[c].rest))]] :
            n \in 1..Len(srv[c].rest)}
    ELSE UNION {{[frame |-> SubSeq(u, 1, n),
                  srv |-> [first |-> FALSE, rest |-> SubSeq(u, n + 1, Len(u))]] :
                   n \in 1..(Len(u) - 1)} : u \in Units(c, DocCodes)}

\* a routing that emits every message under its opcode key, dispatch
\* messages included
EmitByOpcode(msg) ==
  LET dispatch == msg.op = opcodes.DISPATCH
      hello == ~dispatch /\ msg.op = opcodes.HELLO
      ack == ~dispatch /\ msg.op = opcodes.HEARTBEAT_ACK
      ready == FALSE
      slot == IF tg # 0 /\ FreeSlots(tg) # {}
                THEN CHOOSE i \in FreeSlots(tg) : \A j \in FreeSlots(tg) : i <= j
                ELSE 0
      dead == hello /\ (IF tg = 0 THEN TRUE ELSE tgs[tg] \in {"none", "closed"})
  IN [interval |-> IF hello THEN msg.d ELSE interval,
      has_ack |-> IF ack THEN TRUE ELSE has_ack,
      session_id |-> IF ready THEN msg.d ELSE session_id,
      spawn |-> IF hello /\ ~dead THEN slot ELSE 0,
      full |-> hello /\ ~dead /\ slot = 0,
      err |-> IF dead THEN "spawn failed" ELSE "",
      acked |-> ack]

\* emitter.emit(key, d): the listeners registered in __init__, run in the
\* receive task.  Gives the fields the listeners write and the task spawned.
\* _on_hello spawns _heartbeat_task into self._tg, which raises if that
\* group has already finished.
Emit(msg) ==
  LET dispatch == msg.op = opcodes.DISPATCH
      hello == ~dispatch /\ msg.op = opcodes.HELLO
      ack == ~dispatch /\ msg.op = opcodes.HEARTBEAT_ACK
      ready == dispatch /\ msg.t = "READY"
      slot == IF tg # 0 /\ FreeSlots(tg) # {}
                THEN CHOOSE i \in FreeSlots(tg) : \A j \in FreeSlots(tg) : i <= j
                ELSE 0
      dead == hello /\ (IF tg = 0 THEN TRUE ELSE tgs[tg] \in {"none", "closed"})
  IN [interval |-> IF hello THEN msg.d ELSE interval,
      has_ack |-> IF ack THEN TRUE ELSE has_ack,
      session_id |-> IF ready THEN msg.d ELSE session_id,
      spawn |-> IF hello /\ ~dead THEN slot ELSE 0,
      full |-> hello /\ ~dead /\ slot = 0,
      err |-> IF dead THEN "spawn failed" ELSE "",
      acked |-> ack]

\* first step of _receive_task after it is spawned
RecvStart(c) ==
  /\ task[RecvT(c)].pc = "spawned" /\ tgs[c] = "open"
  /\ task' = [task EXCEPT ![RecvT(c)].pc = LoopPc(running, "wait")]
  /\ UNCHANGED <<used, running, con, tg, interval, last_sequence, has_ack, session_id, token,
                 zlib_compressed, shard, buffer, inflator, conns, srv, tgs, hist>>

\* an exception leaves task t: its task group is cancelled
Raise(t, e) ==
  /\ task' = Stop([task EXCEPT ![t] = At("raised", 0, e)], CancelScope(tgs, Scope(t)))
  /\ tgs' = CancelScope(tgs, Scope(t))

\* get_message raises: the channel was closed or failed
RecvTransportFailure(c) ==
  /\ task[RecvT(c)].pc = "wait" /\ tgs[c] = "open" /\ conns[c] = "open"
  /\ conns' = [conns EXCEPT ![c] = "closed"]
  /\ srv' = [srv EXCEPT ![c].rest = <<>>]
  /\ Raise(RecvT(c), "ConnectionClosed")
  /\ hist' = [hist EXCEPT !.clean = FALSE]
  /\ UNCHANGED <<used, running, con, tg, interval, last_sequence, has_ack, session_id, token,
                 zlib_compressed, shard, buffer, inflator>>

\* one iteration of _receive_task: get_message returns one of the frames
\* of deliveries, _receive decodes it, the message is emitted and the loop
\* condition is tested.  Once the loop has ended nothing reads the
\* connection any more and the rest of the gateway's unit is dropped.
Recv(c, deliveries) ==
  /\ task[RecvT(c)].pc = "wait" /\ tgs[c] = "open" /\ conns[c] = "open"
  /\ used.frames < MaxFrames
  /\ used' = [used EXCEPT !.frames = @ + 1]
  /\ \E dl \in deliveries :
       LET r == Receive(dl.frame, zlib_compressed, buffer, inflator, last_sequence)
           e == Emit(r.msg)
       IN /\ buffer' = r.buffer
          /\ inflator' = r.inflator
          /\ last_sequence' = r.seq
          /\ IF r.out # "msg"
               THEN /\ Raise(RecvT(c), r.out)
                    /\ srv' = [srv EXCEPT ![c] = [first |-> FALSE, rest |-> <<>>]]
                    /\ UNCHANGED <<interval, has_ack, session_id, hist>>
               ELSE /\ ~e.full
                    /\ interval' = e.interval
                    /\ has_ack' = e.has_ack
                    /\ session_id' = e.session_id
                    /\ hist' = IF e.acked /\ c = con /\ hist.beat = "pending"
                                 THEN [hist EXCEPT !.beat = "acked"] ELSE hist
                    /\ IF e.err # ""
                         THEN /\ Raise(RecvT(c), e.err)
                              /\ srv' = [srv EXCEPT ![c] = [first |-> FALSE, rest |-> <<>>]]
                         ELSE /\ tgs' = tgs
                              /\ srv' = [srv EXCEPT ![c] =
                                           IF running THEN dl.srv
                                           ELSE [first |-> FALSE, rest |-> <<>>]]
                              /\ task' =
                                   [t \in TaskIds |->
                                      IF t = RecvT(c)
                                        THEN [task[t] EXCEPT !.pc = LoopPc(running, "wait")]
                                      ELSE IF e.spawn # 0 /\ t = HbT(tg, e.spawn)
                                        THEN At("spawned", 0, "")
                                      ELSE task[t]]
  /\ UNCHANGED <<running, con, tg, token, zlib_compressed, shard, conns>>

\* a frame carrying HELLO, HEARTBEAT_ACK, a message with an opcode nobody
\* listens to, or a text the codec cannot decode
RecvControl(c) == Recv(c, Whole(c, ControlCodes))

\* a frame carrying a dispatch message: READY or MESSAGE_CREATE, with a
\* sequence number
RecvDispatch(c) == Recv(c, Whole(c, DispatchCodes))

\* zlib-stream only: a frame cut out of the middle of the stream
RecvFragment(c) == zlib_compressed /\ Recv(c, Fragments(c))

\* _identify: the payload is built and handed to the transport
IdentifyBegin(c) ==
  /\ task[IdentT(c)].pc = "spawned" /\ tgs[c] = "open"
  /\ task' = [task EXCEPT ![IdentT(c)] = Sending(con, opcodes.IDENTIFY, IdentifyData)]
  /\ UNCHANGED <<used, running, con, tg, interval, last_sequence, has_ack, session_id, token,
                 zlib_compressed, shard, buffer, inflator, conns, srv, tgs, hist>>

\* _identify: the send returns
IdentifySent(c) ==
  /\ task[IdentT(c)].pc = "send" /\ tgs[c] = "open"
  /\ task' = [task EXCEPT ![IdentT(c)] = At("done", 0, "")]
  /\ UNCHANGED <<used, running, con, tg, interval, last_sequence, has_ack, session_id, token,
                 zlib_compressed, shard, buffer, inflator, conns, srv, tgs, hist>>

\* first step of _heartbeat_task after it is spawned
HbStart(t) ==
  /\ task[t].pc = "spawned" /\ Alive(t)
  /\ task' = [task EXCEPT ![t].pc = LoopPc(running, "sleep")]
  /\ UNCHANGED <<used, running, con, tg, interval, last_sequence, has_ack, session_id, token,
                 zlib_compressed, shard, buffer, inflator, conns, srv, tgs, hist>>

\* _heartbeat, when the sleep returns and an ack is on record: HEARTBEAT
\* with the last sequence is handed to the transport
HbBeat(t) ==
  /\ task[t].pc = "sleep" /\ Alive(t)
  /\ has_ack
  /\ task' = [task EXCEPT ![t] = Sending(con, opcodes.HEARTBEAT, HeartbeatData)]
  /\ hist' = [hist EXCEPT !.beat = "pending", !.clean = @ /\ hist.beat # "pending"]
  /\ UNCHANGED <<used, running, con, tg, interval, last_sequence, has_ack, session_id, token,
                 zlib_compressed, shard, buffer, inflator, conns, srv, tgs>>

\* _heartbeat, when the send returns: the ack flag is written and the loop
\* condition tested
HbSent(t) ==
  /\ task[t].pc = "send" /\ Alive(t)
  /\ has_ack' = FALSE
  /\ task' = [task EXCEPT ![t] = At(LoopPc(running, "sleep"), 0, "")]
  /\ UNCHANGED <<used, running, con, tg, interval, last_sequence, session_id, token,
                 zlib_compressed, shard, buffer, inflator, conns, srv, tgs, hist>>

\* _heartbeat, when the sleep returns and no ack is on record: resume()
HbLost(t) ==
  /\ task[t].pc = "sleep" /\ Alive(t)
  /\ ~has_ack
  /\ ResumeCall(t)
  /\ hist' = [hist EXCEPT !.clean = @ /\ hist.beat # "pending", !.trig = ResumeData]
  /\ UNCHANGED <<used, con, tg, interval, last_sequence, has_ack, session_id, token,
                 zlib_compressed, shard, buffer, inflator, conns, srv>>

\* the task group of on_open finishes once every task in it has ended.
\* The host then leaves open_connection, which closes the connection, and
\* start() or resume() returns, or raises what a task of the group raised.
HostExit(t) ==
  /\ task[t].pc = "host"
  /\ LET c == task[t].con
         raised == {u \in Children(c) : task[u].pc = "raised"}
         e == IF raised = {} THEN "" ELSE task[CHOOSE u \in raised : TRUE].err
         groups == [tgs EXCEPT ![c] = "closed"]
         ended == [u \in TaskIds |-> IF u \in Children(c) THEN NoTask ELSE task[u]]
         held == {task[u].con : u \in Children(c)} \ {0}
     IN /\ \A u \in Children(c) : task[u].pc \in Terminal \cup {"aborted"}
        /\ conns' = [k \in Conns |-> IF k = c \/ k \in held THEN "closed" ELSE conns[k]]
        /\ srv' = [srv EXCEPT ![c].rest = <<>>]
        /\ IF Scope(t) = 0
             THEN /\ task' = [ended EXCEPT ![t] = At("idle", 0, e)]
                  /\ tgs' = groups
             ELSE IF e # ""
               THEN /\ task' = Stop([ended EXCEPT ![t] = At("raised", 0, e)],
                                    CancelScope(groups, Scope(t)))
                    /\ tgs' = CancelScope(groups, Scope(t))
             ELSE /\ task' = [ended EXCEPT ![t] =
                                At(IF tgs[Scope(t)] = "open"
                                     THEN LoopPc(running, "sleep") ELSE "cancelled", 0, "")]
                  /\ tgs' = groups
  /\ UNCHANGED <<used, running, con, tg, interval, last_sequence, has_ack, session_id, token,
                 zlib_compressed, shard, buffer, inflator, hist>>

\* a session started by the application: start(), the tasks of on_open,
\* the end of the task group
Session ==
  \/ \E tok \in Tokens : Start(tok)
  \/ ConnectOpened
  \/ \E c \in Conns : RecvStart(c)
  \/ \E c \in Conns : RecvTransportFailure(c)
  \/ \E c \in Conns : IdentifyBegin(c)
  \/ \E c \in Conns : IdentifySent(c)
  \/ \E t \in {MainT, ResT} \cup HbIds : HostExit(t)

\* close() and resume() called by the application, and the steps of resume()
Calls ==
  \/ Close
  \/ AppResume
  \/ \E t \in {ResT} \cup HbIds : ResumeOpened(t)
  \/ \E t \in {ResT} \cup HbIds : ResumeSent(t)

\* the heartbeat loop
Heartbeats ==
  \/ \E t \in HbIds : HbStart(t)
  \/ \E t \in HbIds : HbBeat(t)
  \/ \E t \in HbIds : HbSent(t)
  \/ \E t \in HbIds : HbLost(t)

Next ==
  \/ Session
  \/ Calls
  \/ Heartbeats
  \/ \E c \in Conns : RecvControl(c)
  \/ \E c \in Conns : RecvDispatch(c)
  \/ \E c \in Conns : RecvFragment(c)

Spec == Init /\ [][Next]_vars

\* The client against a gateway that sends whole control messages: the
\* connection lifecycle and the heartbeat protocol.
NextLife ==
  \/ Session
  \/ Calls
  \/ Heartbeats
  \/ \E c \in Conns : RecvControl(c)

SpecLife == Init /\ [][NextLife]_vars

\* The client under an application that only calls start(), against a
\* gateway that sends any message in any framing: the receive path.
NextStream ==
  \/ Session
  \/ Heartbeats
  \/ \E c \in Conns : RecvControl(c)
  \/ \E c \in Conns : RecvDispatch(c)
  \/ \E c \in Conns : RecvFragment(c)

SpecStream == Init /\ [][NextStream]_vars

\* The client under an application that calls start(), resume() and
\* close(), against a gateway that sends dispatch messages only: session
\* state across connections.
NextResume ==
  \/ Session
  \/ Calls
  \/ \E c \in Conns : RecvDispatch(c)

SpecResume == Init /\ [][NextResume]_vars

\* Clients constructed with any shard arguments, started by the application:
\* the IDENTIFY command.
SpecShard == InitShard /\ [][Session]_vars

\* ------------------------------------------------------------- properties
\* hist.beat is the state of the heartbeat exchange of the current
\* connection: "none" before the first HEARTBEAT, "pending" once a HEARTBEAT
\* has been handed to the transport, "acked" once a HEARTBEAT_ACK has been
\* handled after that.  hist.clean says that so far there was no close(), no
\* resume() by the application and no transport failure, and that every
\* tick found the HEARTBEAT before it acknowledged.  hist.closed says that a
\* close() has completed and no start() or resume() was called since.
\* hist.trig is what the RESUME payload would have held at the moment
\* resume() was last called.

\* C1: a tick that finds the previous HEARTBEAT acknowledged (or none sent
\* yet) sends a HEARTBEAT, a tick that finds it unacknowledged calls
\* resume(); so no HEARTBEAT is sent while the one before it is still
\* unacknowledged.
C1_TickFollowsAck ==
  [][\A t \in HbIds : /\ HbBeat(t) => hist.beat # "pending"
                      /\ HbLost(t) => hist.beat = "pending"]_vars

\* C2: the resume() called by the heartbeat loop is not aborted by the
\* cancellation it triggers through close(): no heartbeat task ends inside
\* resume() before the new connection is opened.
C2_ResumeNotAborted == \A t \in HbIds : task[t].pc # "aborted"

\* C3: a failure of the transport's receive operation does not end the
\* receive task with an exception and does not reach the application
\* through start() or resume().
C3_TransportFailureRecovered ==
  /\ \A c \in Conns : task[RecvT(c)].err # "ConnectionClosed"
  /\ task[MainT].err # "ConnectionClosed" /\ task[ResT].err # "ConnectionClosed"

\* C4: once set, the stored sequence number never decreases.
C4_SequenceMonotone ==
  [][last_sequence # NoField =>
       /\ last_sequence' # NoField
       /\ \A a \in last_sequence : \A b \in last_sequence' : a <= b]_vars

\* C5: a decoded message with a sequence field, the value 0 included, sets
\* the stored sequence number to that field; one without leaves it unchanged.
C5_SequenceUpdatedIffPresent ==
  [][\A c \in Conns : \A k \in 1..Len(DocTable) :
       (Recv(c, Whole(c, {k})) /\ task'[RecvT(c)].pc # "raised")
          => last_sequence' = (IF DocTable[k].s # NoField THEN DocTable[k].s
                               ELSE last_sequence)]_vars

\* C6: with compression, a frame after which the reassembly buffer does not
\* end with the terminator stays buffered and raises no error: the receive
\* loop goes on to the next frame.
C6_IncompleteFrameBuffered ==
  [][\A c \in Conns :
       (/\ zlib_compressed
        /\ task[RecvT(c)].pc = "wait"
        /\ buffer' # buffer
        /\ ~endswith(buffer', ZLIB_SUFFIX))
          => task'[RecvT(c)].pc # "raised"]_vars

\* C7: a message the codec cannot decode is dropped: the EncodingError ends
\* no task and is not raised to the application.
C7_DecodeFailureNonFatal == \A t \in TaskIds : task[t].err # "EncodingError"

\* C8: when a HEARTBEAT_ACK was handled after the last HEARTBEAT was handed
\* to the transport, the next tick does not call resume().
C8_AckedTickBeats == [][\A t \in HbIds : HbLost(t) => hist.beat # "acked"]_vars

\* C9: with every HEARTBEAT acknowledged before the tick after it, and no
\* close, resume by the application or transport failure, the heartbeat loop
\* never calls resume().
C9_SteadyHeartbeat ==
  [][\A t \in HbIds : HbLost(t) => (~hist.clean \/ hist.beat = "pending")]_vars

\* C10: after a close() has completed, and until start() or resume() is
\* called again, no HEARTBEAT is sent and no inbound frame is processed.
C10_QuietAfterClose ==
  [][hist.closed => ~((\E t \in HbIds : HbBeat(t)) \/ (\E c \in Conns : RecvControl(c)))]_vars

\* C11: close() called by the application is terminal: after it has
\* completed, and until the application calls start() or resume() again, no
\* new transport connection is opened and the running flag is not set back
\* to true, whatever heartbeat tick or resume() was in progress.
C11_CloseIsTerminal ==
  [][hist.closed =>
       /\ ~running'
       /\ \A c \in Conns : conns[c] = "unused" => conns'[c] = "unused"]_vars

\* C12: at most one transport connection opened by the client is open.
C12_OneConnection == Cardinality({c \in Conns : conns[c] = "open"}) <= 1

C14_NoIdentifyOnResumed ==
  \A c \in Conns :
    task[IdentT(c)].pc = "send" =>
      ~\E t \in {ResT} \cup HbIds :
          task[t].pc = "host" /\ task[t].con = task[IdentT(c)].out[1]

\* C15: the IDENTIFY payload has the shard field [shard_id, shard_count]
\* exactly when both arguments were given, shard_id 0 included.
C15_ShardIffSupplied ==
  \A c \in Conns :
    (task[IdentT(c)].pc = "send" /\ task[IdentT(c)].out[2] = opcodes.IDENTIFY) =>
      task[IdentT(c)].out[3].shard = {<<i, n>> : i \in shard.id, n \in shard.count}

\* C16: at most one receive loop and at most one heartbeat loop is active,
\* whatever the gateway sends.
C16_OneLoopEach ==
  /\ Cardinality({c \in Conns : task[RecvT(c)].pc \in {"spawned", "wait"}}) <= 1
  /\ Cardinality({t \in HbIds : task[t].pc \in {"spawned", "sleep", "send"}}) <= 1

\* C17: right after a HELLO has been handled (the step in which _on_hello
\* spawns a heartbeat task) the ack flag has its initial value, True.
C17_FreshAckAfterHello ==
  [][\A t \in HbIds : (task[t].pc = "none" /\ task'[t].pc = "spawned") => has_ack']_vars

C19_FreshStartResets ==
  [][/\ AppResume => (session_id' = session_id /\ last_sequence' = last_sequence)
     /\ \A tok \in Tokens :
          (Start(tok) /\ hist.closed) => (session_id' = 0 /\ last_sequence' = NoField)]_vars

\* C20: every decoded message is routed once.  HELLO reaches _on_hello
\* (the interval is stored and one heartbeat task is spawned), HEARTBEAT_ACK
\* reaches _on_heartbeat_ack (the ack flag is set), READY reaches _on_ready
\* (the session id of its payload is stored); no message has any other of
\* these effects, and after a message with an unknown opcode the session id,
\* the ack flag and the running flag are as before and the receive loop
\* waits for the next frame.
C20_Routing ==
  [][\A c \in Conns : \A k \in 1..Len(DocTable) :
       (Recv(c, Whole(c, {k})) /\ task'[RecvT(c)].pc # "raised") =>
          LET m == DocTable[k]
              dispatch == m.op = opcodes.DISPATCH
              hello == m.op = opcodes.HELLO
              ack == m.op = opcodes.HEARTBEAT_ACK
              ready == dispatch /\ m.t = "READY"
              born == {t \in HbIds : task[t].pc = "none" /\ task'[t].pc = "spawned"}
          IN /\ interval' = (IF hello THEN m.d ELSE interval)
             /\ Cardinality(born) = (IF hello THEN 1 ELSE 0)
             /\ has_ack' = (IF ack THEN TRUE ELSE has_ack)
             /\ session_id' = (IF ready THEN m.d ELSE session_id)
             /\ running' = running
             /\ running => task'[RecvT(c)].pc = "wait"]_vars

\* HELLO and READY have been routed to their handlers and the receive loop
\* is waiting for the next frame
C20_Witness ==
  /\ interval = 45000
  /\ session_id = 1
  /\ \E c \in Conns : /\ task[RecvT(c)].pc = "wait"
                      /\ \E i \in HbSlots : task[HbT(c, i)].pc # "none"
====
